---- MODULE Spec2Model ----
(***************************************************************************)
(* td: a local, file-backed task tracker.  The model covers the commands   *)
(* of td/cli.py (add, focus, active, later, done, show, edit, mv, rm) over *)
(* the task store (one record per id).                                     *)
(*                                                                         *)
(* Strings are sequences of one-character strings, so that slugify, the    *)
(* case folding of click.Choice and the "-N" suffix of resolve_unique_id   *)
(* are computed character by character.  An optional value is None (the    *)
(* empty tuple) or Some(v) (the one-element tuple holding v), so an absent *)
(* field differs from an empty string.                                     *)
(***************************************************************************)
EXTENDS Integers, Sequences, FiniteSets, TLC

VARIABLES
    tasks,   \* the store: a function from the stored ids to their records
    now,     \* the clock datetime.now() reads
    last,    \* what the last finished command did and reported
    ncmds,   \* commands started so far
    removed, \* history: the ids rm deleted that no add has created since
    procs    \* concurrent invocations: the position and memory of each

vars == <<tasks, now, last, ncmds, removed, procs>>

(***************************************************************************)
(* Bounds.                                                                 *)
(***************************************************************************)
MaxCmds == 3
MaxClock == 1
MaxConcCmds == 3
MaxViewCmds == 3

\* Stands for the interpreter's recursion limit: more frames than any chain of
\* distinct tasks needs.
RecursionLimit == 6

(***************************************************************************)
(* Optional values and strings.                                            *)
(***************************************************************************)
None == <<>>
Some(v) == <<v>>
IsNone(o) == Len(o) = 0
Get(o) == o[1]

\* Python truthiness of an optional string: None and "" are falsy.
Truthy(o) == Len(o) > 0 /\ Len(o[1]) > 0

LowerChars == {"a", "b", "c", "d", "e", "f", "g", "h", "i", "j", "k", "l", "m",
               "n", "o", "p", "q", "r", "s", "t", "u", "v", "w", "x", "y", "z"}
DigitChars == {"0", "1", "2", "3", "4", "5", "6", "7", "8", "9"}

\* str.lower() on one character.
UpperToLower ==
    ("A" :> "a") @@ ("B" :> "b") @@ ("C" :> "c") @@ ("D" :> "d") @@
    ("E" :> "e") @@ ("F" :> "f") @@ ("G" :> "g") @@ ("H" :> "h") @@
    ("I" :> "i") @@ ("J" :> "j") @@ ("K" :> "k") @@ ("L" :> "l") @@
    ("M" :> "m") @@ ("N" :> "n") @@ ("O" :> "o") @@ ("P" :> "p") @@
    ("Q" :> "q") @@ ("R" :> "r") @@ ("S" :> "s") @@ ("T" :> "t") @@
    ("U" :> "u") @@ ("V" :> "v") @@ ("W" :> "w") @@ ("X" :> "x") @@
    ("Y" :> "y") @@ ("Z" :> "z")

ToLower(c) == IF c \in DOMAIN UpperToLower THEN UpperToLower[c] ELSE c

Lower(s) == [i \in 1..Len(s) |-> ToLower(s[i])]

IsAlnum(c) == c \in LowerChars \/ c \in DigitChars

Digit(d) ==
    CASE d = 0 -> "0" [] d = 1 -> "1" [] d = 2 -> "2" [] d = 3 -> "3"
      [] d = 4 -> "4" [] d = 5 -> "5" [] d = 6 -> "6" [] d = 7 -> "7"
      [] d = 8 -> "8" [] d = 9 -> "9"

\* str(n) for n >= 0.
RECURSIVE Decimal(_)
Decimal(n) == IF n < 10 THEN <<Digit(n)>> ELSE Decimal(n \div 10) \o <<Digit(n % 10)>>

(***************************************************************************)
(* td.models: the state enumeration and slugify.                           *)
(***************************************************************************)
S_focus == <<"f", "o", "c", "u", "s">>
S_active == <<"a", "c", "t", "i", "v", "e">>
S_later == <<"l", "a", "t", "e", "r">>
S_done == <<"d", "o", "n", "e">>

VALID_STATES == <<S_focus, S_active, S_later, S_done>>

ValidStateSet == {VALID_STATES[i] : i \in 1..Len(VALID_STATES)}

\* Lowercase, each run of non-alphanumerics becomes one hyphen.
RECURSIVE Hyphenate(_, _)
Hyphenate(s, inRun) ==
    IF s = <<>> THEN <<>>
    ELSE IF IsAlnum(Head(s)) THEN <<Head(s)>> \o Hyphenate(Tail(s), FALSE)
    ELSE IF inRun THEN Hyphenate(Tail(s), TRUE)
    ELSE <<"-">> \o Hyphenate(Tail(s), TRUE)

RECURSIVE StripLeft(_)
StripLeft(s) ==
    IF s # <<>> /\ Head(s) = "-" THEN StripLeft(Tail(s)) ELSE s

RECURSIVE StripRight(_)
StripRight(s) ==
    IF s # <<>> /\ s[Len(s)] = "-" THEN StripRight(SubSeq(s, 1, Len(s) - 1)) ELSE s

slugify(title) == StripRight(StripLeft(Hyphenate(Lower(title), FALSE)))

(***************************************************************************)
(* td.store: one record per id.  A record holds every field of a Task.     *)
(***************************************************************************)
Task(id, title, state, parent, notes, created, updated) ==
    [id |-> id, title |-> title, state |-> state, parent |-> parent,
     notes |-> notes, created |-> created, updated |-> updated]

\* (root / ".td" / "tasks" / f"{task_id}.yaml").exists()
exists(T, id) == id \in DOMAIN T

NoTask == Task(<<>>, <<>>, <<>>, None, None, 0, 0)

\* load: the record of id, or the not-found failure.
load_task(T, id) ==
    IF id \in DOMAIN T THEN [found |-> TRUE, task |-> T[id]]
    ELSE [found |-> FALSE, task |-> NoTask]

\* save: the whole record replaces what is stored under its id.
save_task(T, task) ==
    [i \in DOMAIN T \cup {task.id} |-> IF i = task.id THEN task ELSE T[i]]

\* delete: the record of id is erased; no other record is touched.
delete_task(T, id) == [i \in DOMAIN T \ {id} |-> T[i]]

Suffixed(base, n) == base \o <<"-">> \o Decimal(n)

RECURSIVE NextFree(_, _, _)
NextFree(T, base, n) ==
    IF Suffixed(base, n) \in DOMAIN T THEN NextFree(T, base, n + 1)
    ELSE Suffixed(base, n)

\* base when unused, else base-2, base-3, ... up to the first unused one.
resolve_unique_id(T, base) ==
    IF base \in DOMAIN T THEN NextFree(T, base, 2) ELSE base

(***************************************************************************)
(* The commands.  Each is an operator from the store, the clock and the    *)
(* command line to the outcome: the store afterwards, what was reported,   *)
(* and how many saves, deletes and prompts the run made.                   *)
(***************************************************************************)
Outcome(T, result, id, saves, deletes, prompted) ==
    [tasks |-> T, result |-> result, id |-> id, saves |-> saves,
     deletes |-> deletes, prompted |-> prompted]

\* Faulty variant: the option takes any value.
click_Choice_any(value) == {value}

\* click.Choice(VALID_STATES, case_sensitive=False): the choices the value
\* matches when both are case-folded; the canonical choice is what add gets.
click_Choice(value) == {c \in ValidStateSet : Lower(c) = Lower(value)}

\* Faulty variant: an explicit id is used without the existence check.
add_task_id_nocheck(T, title, custom_id) ==
    IF Truthy(custom_id)
    THEN [err |-> "no", id |-> Get(custom_id)]
    ELSE LET base == slugify(title)
         IN  IF base = <<>>
             THEN [err |-> "badslug", id |-> <<>>]
             ELSE [err |-> "no", id |-> resolve_unique_id(T, base)]

\* Faulty variant: the slug is used as the id without resolving it against the store.
add_task_id_noresolve(T, title, custom_id) ==
    IF Truthy(custom_id)
    THEN IF exists(T, Get(custom_id))
         THEN [err |-> "exists", id |-> Get(custom_id)]
         ELSE [err |-> "no", id |-> Get(custom_id)]
    ELSE LET base == slugify(title)
         IN  IF base = <<>>
             THEN [err |-> "badslug", id |-> <<>>]
             ELSE [err |-> "no", id |-> base]

\* Faulty variant: an empty slug is resolved and used like any other.
add_task_id_anyslug(T, title, custom_id) ==
    IF Truthy(custom_id)
    THEN IF exists(T, Get(custom_id))
         THEN [err |-> "exists", id |-> Get(custom_id)]
         ELSE [err |-> "no", id |-> Get(custom_id)]
    ELSE [err |-> "no", id |-> resolve_unique_id(T, slugify(title))]

\* add, lines 47-55: the id of the new task, or the failure.
add_task_id(T, title, custom_id) ==
    IF Truthy(custom_id)
    THEN IF exists(T, Get(custom_id))
         THEN [err |-> "exists", id |-> Get(custom_id)]
         ELSE [err |-> "no", id |-> Get(custom_id)]
    ELSE LET base == slugify(title)
         IN  IF base = <<>>
             THEN [err |-> "badslug", id |-> <<>>]
             ELSE [err |-> "no", id |-> resolve_unique_id(T, base)]

\* add, lines 57-68: the Task built in memory.
add_task(task_id, title, parent, state, clock) ==
    Task(task_id, title,
         IF IsNone(state) THEN S_active ELSE Get(state),
         parent, None, clock, clock)

add_cmd(T, clock, title, parent, state, custom_id) ==
    IF ~IsNone(state) /\ click_Choice(Get(state)) = {}
    THEN Outcome(T, "badstate", <<>>, 0, 0, FALSE)
    ELSE LET st == IF IsNone(state) THEN None
                   ELSE Some(CHOOSE c \in click_Choice(Get(state)) : TRUE)
             r == add_task_id(T, title, custom_id)
         IN  IF r.err # "no"
             THEN Outcome(T, r.err, r.id, 0, 0, FALSE)
             ELSE Outcome(save_task(T, add_task(r.id, title, parent, st, clock)),
                          "ok", r.id, 1, 0, FALSE)

\* Faulty variant: the transition does not refresh updated.
_set_state_stale(T, clock, task_id, new_state) ==
    LET l == load_task(T, task_id)
    IN  IF ~l.found
        THEN Outcome(T, "notfound", task_id, 0, 0, FALSE)
        ELSE Outcome(save_task(T, [l.task EXCEPT !.state = new_state]),
                     "ok", task_id, 1, 0, FALSE)

\* _set_state, lines 73-79.
_set_state(T, clock, task_id, new_state) ==
    LET l == load_task(T, task_id)
    IN  IF ~l.found
        THEN Outcome(T, "notfound", task_id, 0, 0, FALSE)
        ELSE Outcome(save_task(T, [l.task EXCEPT !.state = new_state,
                                                 !.updated = clock]),
                     "ok", task_id, 1, 0, FALSE)

\* show, lines 189-201: reads one record.
show_cmd(T, id) ==
    IF ~load_task(T, id).found
    THEN Outcome(T, "notfound", id, 0, 0, FALSE)
    ELSE Outcome(T, "ok", id, 0, 0, FALSE)

\* edit, lines 209-230, on the loaded task: the fields the options name.
\* Faulty variant: an empty --notes or --parent is stored as the empty string.
edit_task_keep_empty(task, title, notes, parent) ==
    LET t1 == IF ~IsNone(title) THEN [task EXCEPT !.title = Get(title)] ELSE task
        t2 == IF ~IsNone(notes) THEN [t1 EXCEPT !.notes = notes] ELSE t1
    IN  IF ~IsNone(parent) THEN [t2 EXCEPT !.parent = parent] ELSE t2

edit_task(task, title, notes, parent) ==
    LET t1 == IF ~IsNone(title) THEN [task EXCEPT !.title = Get(title)] ELSE task
        t2 == IF ~IsNone(notes)
              THEN [t1 EXCEPT !.notes = IF Truthy(notes) THEN notes ELSE None]
              ELSE t1
    IN  IF ~IsNone(parent)
        THEN [t2 EXCEPT !.parent = IF Truthy(parent) THEN parent ELSE None]
        ELSE t2

\* Faulty variant: edit saves whether or not an option was given.
edit_changed_always(title, notes, parent) == TRUE

edit_changed(title, notes, parent) ==
    ~IsNone(title) \/ ~IsNone(notes) \/ ~IsNone(parent)

edit_cmd(T, clock, id, title, notes, parent) ==
    LET l == load_task(T, id)
    IN  IF ~l.found
        THEN Outcome(T, "notfound", id, 0, 0, FALSE)
        ELSE IF edit_changed(title, notes, parent)
        THEN Outcome(save_task(T, [edit_task(l.task, title, notes, parent)
                                     EXCEPT !.updated = clock]),
                     "ok", id, 1, 0, FALSE)
        ELSE Outcome(T, "nothing", id, 0, 0, FALSE)

\* Faulty variant: a missing task becomes an empty one, which is then saved.
mv_cmd_upsert(T, clock, id, parent_id) ==
    LET l == load_task(T, id)
        task == IF l.found THEN l.task
                ELSE Task(id, <<>>, S_active, None, None, clock, clock)
    IN  Outcome(save_task(T, [task EXCEPT !.parent = Some(parent_id),
                                          !.updated = clock]),
                "ok", id, 1, 0, FALSE)

\* mv, lines 236-243.
mv_cmd(T, clock, id, parent_id) ==
    LET l == load_task(T, id)
    IN  IF ~l.found
        THEN Outcome(T, "notfound", id, 0, 0, FALSE)
        ELSE Outcome(save_task(T, [l.task EXCEPT !.parent = Some(parent_id),
                                                 !.updated = clock]),
                     "ok", id, 1, 0, FALSE)

\* Faulty variant: the record is deleted before the prompt is answered.
rm_cmd_delete_first(T, id, force, answer) ==
    IF ~load_task(T, id).found
    THEN Outcome(T, "notfound", id, 0, 0, FALSE)
    ELSE IF ~force /\ ~answer
    THEN Outcome(delete_task(T, id), "aborted", id, 0, 1, TRUE)
    ELSE Outcome(delete_task(T, id), "ok", id, 0, 1, ~force)

\* Faulty variant: the command reports the delete without performing it.
rm_cmd_nodelete(T, id, force, answer) ==
    IF ~load_task(T, id).found
    THEN Outcome(T, "notfound", id, 0, 0, FALSE)
    ELSE IF ~force /\ ~answer
    THEN Outcome(T, "aborted", id, 0, 0, TRUE)
    ELSE Outcome(T, "ok", id, 0, 1, ~force)

\* Faulty variant: the delete cascades, detaching the children of the removed task.
rm_cmd_cascade(T, id, force, answer) ==
    IF ~load_task(T, id).found
    THEN Outcome(T, "notfound", id, 0, 0, FALSE)
    ELSE IF ~force /\ ~answer
    THEN Outcome(T, "aborted", id, 0, 0, TRUE)
    ELSE Outcome([i \in DOMAIN T \ {id} |->
                     IF T[i].parent = Some(id) THEN [T[i] EXCEPT !.parent = None]
                     ELSE T[i]],
                 "ok", id, 0, 1, ~force)

\* rm, lines 249-259: answer is what the user replies to the prompt.
rm_cmd(T, id, force, answer) ==
    IF ~load_task(T, id).found
    THEN Outcome(T, "notfound", id, 0, 0, FALSE)
    ELSE IF ~force /\ ~answer
    THEN Outcome(T, "aborted", id, 0, 0, TRUE)
    ELSE Outcome(delete_task(T, id), "ok", id, 0, 1, ~force)

(***************************************************************************)
(* The listings.  load_all returns the records in no particular order:     *)
(* order is the order it happens to return them in, a sequence that names  *)
(* every stored id once.                                                   *)
(***************************************************************************)
load_all_tasks(T, order) == [k \in 1..Len(order) |-> T[order[k]]]

\* A printed task: ls prints every task at indent 0.
Line(t, indent) == [id |-> t.id, state |-> t.state, indent |-> indent]

\* Faulty variant: the default listing keeps the done tasks.
ls_filter_all(ts, filter_state, show_all) ==
    IF Truthy(filter_state)
    THEN LET Match(t) == t.state = Get(filter_state) IN SelectSeq(ts, Match)
    ELSE ts

\* ls, lines 125-128.
ls_filter(ts, filter_state, show_all) ==
    IF Truthy(filter_state)
    THEN LET Match(t) == t.state = Get(filter_state) IN SelectSeq(ts, Match)
    ELSE IF ~show_all
    THEN LET Open(t) == t.state # S_done IN SelectSeq(ts, Open)
    ELSE ts

\* state_order.get(t.state, 99)
state_order(st) ==
    IF \E k \in 1..Len(VALID_STATES) : VALID_STATES[k] = st
    THEN (CHOOSE k \in 1..Len(VALID_STATES) : VALID_STATES[k] = st) - 1
    ELSE 99

\* list.sort is stable: t goes after every task whose key is not greater.
RECURSIVE InsertByState(_, _)
InsertByState(sorted, t) ==
    IF sorted = <<>> THEN <<t>>
    ELSE IF state_order(Head(sorted).state) <= state_order(t.state)
    THEN <<Head(sorted)>> \o InsertByState(Tail(sorted), t)
    ELSE <<t>> \o sorted

RECURSIVE SortByState(_, _)
SortByState(sorted, rest) ==
    IF rest = <<>> THEN sorted
    ELSE SortByState(InsertByState(sorted, Head(rest)), Tail(rest))

\* Faulty variant: the tasks stay in the order they were loaded in.
ls_sort_none(ts) == ts

\* ls, lines 130-132.
ls_sort(ts) == SortByState(<<>>, ts)

\* ls, lines 120-153: the tasks printed, in the order printed (the table and
\* the JSON output print the same tasks in the same order).
ls_cmd(T, order, filter_state, show_all) ==
    LET ts == ls_sort(ls_filter(load_all_tasks(T, order), filter_state, show_all))
    IN  [k \in 1..Len(ts) |-> Line(ts[k], 0)]

\* children.get(parent_id, []): the listed tasks whose parent is the key, in
\* the order loaded.  The key is None or a task id.
tree_children(ts, key) ==
    LET Child(t) == t.parent = key IN SelectSeq(ts, Child)

\* print_tree, lines 171-175.  The recursion is as deep as the chain of
\* children is long; beyond RecursionLimit frames the interpreter raises
\* RecursionError and the command dies with what it has printed so far.
RECURSIVE print_tree(_, _, _)
RECURSIVE print_kids(_, _, _)
print_tree(ts, key, indent) ==
    IF indent > RecursionLimit THEN [out |-> <<>>, ok |-> FALSE]
    ELSE print_kids(ts, tree_children(ts, key), indent)

print_kids(ts, kids, indent) ==
    IF kids = <<>> THEN [out |-> <<>>, ok |-> TRUE]
    ELSE LET t == Head(kids)
             sub == print_tree(ts, Some(t.id), indent + 1)
         IN  IF ~sub.ok
             THEN [out |-> <<Line(t, indent)>> \o sub.out, ok |-> FALSE]
             ELSE LET more == print_kids(ts, Tail(kids), indent)
                  IN  [out |-> <<Line(t, indent)>> \o sub.out \o more.out,
                       ok |-> more.ok]

\* tree, lines 158-184: what is printed, and how the command ends.
tree_cmd(T, order, id) ==
    LET Open(t) == t.state # S_done
        ts == SelectSeq(load_all_tasks(T, order), Open)
    IN  IF Truthy(id)
        THEN IF \A k \in 1..Len(ts) : ts[k].id # Get(id)
             THEN [result |-> "notfound", out |-> <<>>]
             ELSE LET t == ts[CHOOSE k \in 1..Len(ts) : ts[k].id = Get(id)]
                      sub == print_tree(ts, id, 1)
                  IN  [result |-> IF sub.ok THEN "ok" ELSE "recursion",
                       out |-> <<Line(t, 0)>> \o sub.out]
        ELSE LET sub == print_tree(ts, None, 0)
             IN  [result |-> IF sub.ok THEN "ok" ELSE "recursion", out |-> sub.out]

(***************************************************************************)
(* Command lines.                                                          *)
(***************************************************************************)
fo == <<"f", "o">>
fo2 == <<"f", "o", "-", "2">>
fo3 == <<"f", "o", "-", "3">>
unsafe == <<"A">>
missing == <<"z">>

Titles == {<<"F", "o">>, <<"f", "o", "!">>, <<"!">>, <<>>}
CustomIds == {None, Some(<<>>), Some(fo2), Some(unsafe)}
StateArgs == {None, Some(<<"F", "O", "C", "U", "S">>), Some(<<"d", "u", "e">>)}
ParentArgs == {None, Some(fo)}
IdArgs == {fo, fo2, missing}
MvParents == {fo, fo2}
EditTitles == {None, Some(<<"B">>), Some(<<>>)}
EditNotes == {None, Some(<<>>), Some(<<"n">>)}
EditParents == {None, Some(<<>>), Some(fo2)}

(***************************************************************************)
(* The sequential program: one command at a time, each run to its end.     *)
(***************************************************************************)
Idle == [cmd |-> "none", result |-> "none", id |-> <<>>, saves |-> 0,
         deletes |-> 0, prompted |-> FALSE, state |-> None, out |-> <<>>,
         parent |-> None, had |-> None]

\* state is the --state option the command was given, if any.  out is what a
\* listing printed; parent and had are the --parent option an edit was given
\* and the parent its task had before.
Report(cmd, r, state) ==
    [cmd |-> cmd, result |-> r.result, id |-> r.id, saves |-> r.saves,
     deletes |-> r.deletes, prompted |-> r.prompted, state |-> state,
     out |-> <<>>, parent |-> None, had |-> None]

RunWith(cmd, r, state) ==
    /\ ncmds < MaxCmds
    /\ tasks' = r.tasks
    /\ last' = Report(cmd, r, state)
    /\ ncmds' = ncmds + 1
    /\ removed' = IF cmd = "rm" /\ r.result = "ok" THEN removed \cup {r.id}
                  ELSE IF cmd = "add" /\ r.result = "ok" THEN removed \ {r.id}
                  ELSE removed
    /\ UNCHANGED <<now, procs>>

Run(cmd, r) == RunWith(cmd, r, None)

Init ==
    /\ tasks = <<>>
    /\ now = 0
    /\ last = Idle
    /\ ncmds = 0
    /\ removed = {}
    /\ procs = <<>>

\* Time passes between commands; the clock never goes back.
Tick ==
    /\ now < MaxClock
    /\ ncmds < MaxCmds
    /\ now' = now + 1
    /\ UNCHANGED <<tasks, last, ncmds, removed, procs>>

add ==
    \E title \in Titles, parent \in ParentArgs, state \in StateArgs,
       custom_id \in CustomIds :
        RunWith("add", add_cmd(tasks, now, title, parent, state, custom_id), state)

focus == \E id \in IdArgs : Run("focus", _set_state(tasks, now, id, S_focus))

active == \E id \in IdArgs : Run("active", _set_state(tasks, now, id, S_active))

later == \E id \in IdArgs : Run("later", _set_state(tasks, now, id, S_later))

done == \E id \in IdArgs : Run("done", _set_state(tasks, now, id, S_done))

show == \E id \in IdArgs : Run("show", show_cmd(tasks, id))

edit ==
    \E id \in IdArgs, title \in EditTitles, notes \in EditNotes,
       parent \in EditParents :
        Run("edit", edit_cmd(tasks, now, id, title, notes, parent))

mv == \E id \in IdArgs, parent_id \in MvParents :
        Run("mv", mv_cmd(tasks, now, id, parent_id))

rm == \E id \in IdArgs, force \in BOOLEAN, answer \in BOOLEAN :
        Run("rm", rm_cmd(tasks, id, force, answer))

Next ==
    \/ Tick
    \/ add
    \/ focus
    \/ active
    \/ later
    \/ done
    \/ show
    \/ edit
    \/ mv
    \/ rm

Spec == Init /\ [][Next]_vars

(***************************************************************************)
(* Properties of the sequential program.                                   *)
(***************************************************************************)
AllIds == IdArgs \cup DOMAIN tasks \cup {fo3, unsafe}

\* The --state values click lets through: none, or a case variant of a member.
StateAccepted(s) == IsNone(s) \/ \E c \in ValidStateSet : Lower(Get(s)) = c

Same(T, U) == DOMAIN T = DOMAIN U /\ \A i \in DOMAIN T : T[i] = U[i]

CommandStep == ncmds' = ncmds + 1

Loaders == {"focus", "active", "later", "done", "edit", "mv", "show", "rm"}
Mutators == {"focus", "active", "later", "done", "edit", "mv"}

\* C1: add with an explicit --id that names a stored record fails with
\* "already exists", performs no save, and leaves every record and the set
\* of stored ids as they were.
C1_AddExistingIdFails ==
    \A id \in DOMAIN tasks, title \in Titles, parent \in ParentArgs,
       state \in {s \in StateArgs : StateAccepted(s)} :
        LET r == add_cmd(tasks, now, title, parent, state, Some(id))
        IN  /\ r.result = "exists"
            /\ r.saves = 0
            /\ Same(r.tasks, tasks)

C1_Witness ==
    /\ last.cmd = "add"
    /\ last.result = "exists"
    /\ last.id \in DOMAIN tasks
    /\ last.saves = 0

\* The smallest n >= 2 for which base-n is not stored.
SmallestSuffix(T, base) ==
    CHOOSE n \in 2..(Cardinality(DOMAIN T) + 2) :
        /\ Suffixed(base, n) \notin DOMAIN T
        /\ \A m \in 2..(n - 1) : Suffixed(base, m) \in DOMAIN T

\* C2: add without --id, for a title with a non-empty slug, returns an id
\* that was not stored when it ran (the base if unused, else the base with
\* the smallest unused suffix), overwrites nothing, and stores exactly one
\* more record.
C2_AddResolvesFreshId ==
    \A title \in Titles, parent \in ParentArgs,
       state \in {s \in StateArgs : StateAccepted(s)} :
        slugify(title) # <<>> =>
            LET base == slugify(title)
                r == add_cmd(tasks, now, title, parent, state, None)
            IN  /\ r.result = "ok"
                /\ r.id \notin DOMAIN tasks
                /\ DOMAIN r.tasks = DOMAIN tasks \cup {r.id}
                /\ Cardinality(DOMAIN r.tasks) = Cardinality(DOMAIN tasks) + 1
                /\ \A i \in DOMAIN tasks : r.tasks[i] = tasks[i]
                /\ r.id = IF base \notin DOMAIN tasks THEN base
                          ELSE Suffixed(base, SmallestSuffix(tasks, base))

\* base and base-2 are stored and the add returned base-3.
C2_Witness ==
    /\ last.cmd = "add"
    /\ last.result = "ok"
    /\ last.id = fo3
    /\ {fo, fo2, fo3} \subseteq DOMAIN tasks
    /\ slugify(tasks[fo3].title) = fo

StatesValid == \A i \in DOMAIN tasks : tasks[i].state \in ValidStateSet

\* C3 as claimed: every stored state is a member of the enumeration, and an
\* add whose --state value is not a member is rejected and creates no record.
C3_Original ==
    /\ StatesValid
    /\ (last.cmd = "add" /\ ~IsNone(last.state)
            /\ Get(last.state) \notin ValidStateSet) =>
        last.result # "ok" /\ last.saves = 0

\* C3, amended: every stored state is a member of the enumeration; an add
\* whose --state value matches no member when case-folded is rejected and
\* creates no record; a value that differs from a member only in case is
\* accepted, and the record the add creates holds the member.
C3_StatesValid ==
    /\ [](StatesValid)
    /\ [][(CommandStep /\ last'.cmd = "add") =>
            /\ ~StateAccepted(last'.state) =>
                /\ last'.result = "badstate"
                /\ last'.saves = 0
                /\ Same(tasks', tasks)
            /\ StateAccepted(last'.state) =>
                /\ last'.result # "badstate"
                /\ last'.result = "ok" =>
                    tasks'[last'.id].state =
                        IF IsNone(last'.state) THEN S_active
                        ELSE Lower(Get(last'.state))]_vars

\* An add with --state FOCUS stored a record whose state is focus.
C3_Witness ==
    /\ last.cmd = "add"
    /\ last.result = "ok"
    /\ ncmds = 1
    /\ tasks[last.id].state = S_focus

\* What a command that found no record must report and leave behind.
NotFoundOutcome(r) ==
    /\ r.result = "notfound"
    /\ r.saves = 0
    /\ r.deletes = 0
    /\ Same(r.tasks, tasks)

\* C4: with no record for the id, each of focus, active, later, done, edit,
\* mv, show and rm fails with not-found and leaves the record set unchanged.
C4_MissingIdNotFound ==
    \A id \in AllIds \ DOMAIN tasks :
        /\ \A st \in ValidStateSet : NotFoundOutcome(_set_state(tasks, now, id, st))
        /\ \A title \in EditTitles, notes \in EditNotes, parent \in EditParents :
            NotFoundOutcome(edit_cmd(tasks, now, id, title, notes, parent))
        /\ \A parent_id \in MvParents : NotFoundOutcome(mv_cmd(tasks, now, id, parent_id))
        /\ NotFoundOutcome(show_cmd(tasks, id))
        /\ \A force \in BOOLEAN, answer \in BOOLEAN :
            NotFoundOutcome(rm_cmd(tasks, id, force, answer))

C4_Witness ==
    /\ last.cmd \in Mutators
    /\ last.result = "notfound"
    /\ last.id \notin DOMAIN tasks
    /\ tasks # <<>>

\* C5: rm checks existence before it prompts and deletes only after a yes
\* (or with --force): a missing id fails with no prompt and no delete, and a
\* declined prompt leaves the record set unchanged.
C5_RmGate ==
    \A id \in AllIds, force \in BOOLEAN, answer \in BOOLEAN :
        LET r == rm_cmd(tasks, id, force, answer)
        IN  /\ id \notin DOMAIN tasks =>
                r.result = "notfound" /\ ~r.prompted /\ r.deletes = 0
                /\ Same(r.tasks, tasks)
            /\ (id \in DOMAIN tasks /\ ~force) => r.prompted
            /\ (id \in DOMAIN tasks /\ ~force /\ ~answer) =>
                r.result = "aborted" /\ r.deletes = 0 /\ Same(r.tasks, tasks)
            /\ r.deletes = 1 => id \in DOMAIN tasks /\ (force \/ (r.prompted /\ answer))
            /\ ~Same(r.tasks, tasks) => r.deletes = 1
            /\ force => ~r.prompted

C5_Witness ==
    /\ last.cmd = "rm"
    /\ last.result = "aborted"
    /\ last.prompted
    /\ last.id \in DOMAIN tasks

\* C6: an id that rm deleted, or that was never created, has no record, and
\* every command that loads it fails with not-found, until an add creates it.
C6_RemovedStaysNotFound ==
    /\ removed \cap DOMAIN tasks = {}
    /\ \A id \in removed \cup {missing} :
        /\ \A st \in ValidStateSet : _set_state(tasks, now, id, st).result = "notfound"
        /\ \A title \in EditTitles, notes \in EditNotes, parent \in EditParents :
            edit_cmd(tasks, now, id, title, notes, parent).result = "notfound"
        /\ \A parent_id \in MvParents : mv_cmd(tasks, now, id, parent_id).result = "notfound"
        /\ show_cmd(tasks, id).result = "notfound"
        /\ \A force \in BOOLEAN, answer \in BOOLEAN :
            rm_cmd(tasks, id, force, answer).result = "notfound"
    /\ (last.cmd \in Loaders /\ last.id \in removed /\ last.cmd # "rm") =>
            last.result = "notfound"

C6_Witness ==
    /\ last.cmd = "show"
    /\ last.result = "notfound"
    /\ last.id \in removed

\* C7: a successful rm of X removes exactly the record X; every other record
\* keeps every field, and a record whose parent is X keeps parent = X.
C7_RmRemovesOnlyTarget ==
    \A id \in DOMAIN tasks, force \in BOOLEAN, answer \in BOOLEAN :
        LET r == rm_cmd(tasks, id, force, answer)
        IN  r.result = "ok" =>
                /\ DOMAIN r.tasks = DOMAIN tasks \ {id}
                /\ \A i \in DOMAIN tasks \ {id} : r.tasks[i] = tasks[i]

\* The removed task had a child, which still names it as its parent.
C7_Witness ==
    /\ last.cmd = "rm"
    /\ last.result = "ok"
    /\ last.id \notin DOMAIN tasks
    /\ \E i \in DOMAIN tasks : tasks[i].parent = Some(last.id)

\* C8: created is set by add and never changes afterwards; every successful
\* focus, active, later, done, edit (with an option) or mv sets updated to
\* the clock of that command; updated >= created always, and updated never
\* decreases.
C8_Timestamps ==
    /\ [](\A i \in DOMAIN tasks : tasks[i].created <= tasks[i].updated
                               /\ tasks[i].updated <= now)
    /\ [][CommandStep =>
            /\ \A i \in DOMAIN tasks \cap DOMAIN tasks' :
                /\ tasks'[i].created = tasks[i].created
                /\ tasks'[i].updated >= tasks[i].updated
            /\ \A i \in DOMAIN tasks' \ DOMAIN tasks :
                /\ last'.cmd = "add"
                /\ tasks'[i].created = now
                /\ tasks'[i].updated = now
            /\ (last'.cmd \in Mutators /\ last'.result = "ok") =>
                tasks'[last'.id].updated = now]_vars

C8_Witness ==
    /\ last.cmd \in Mutators
    /\ last.result = "ok"
    /\ tasks[last.id].created < tasks[last.id].updated
    /\ tasks[last.id].updated = now

\* Lowercase alphanumerics and hyphens.
SafeChar(c) == c \in LowerChars \/ c \in DigitChars \/ c = "-"

\* C11: every stored task's id consists only of lowercase alphanumerics and
\* hyphens, also when add was given the id with --id.
C11_IdsFilesystemSafe ==
    \A i \in DOMAIN tasks :
        /\ i # <<>>
        /\ \A k \in 1..Len(i) : SafeChar(i[k])

\* C12: every stored task's title is a non-empty string.
C12_TitlesNonEmpty == \A i \in DOMAIN tasks : tasks[i].title # <<>>

\* C15: add without --id, for a title whose slug is empty, fails and creates
\* no record: no id is resolved and nothing is saved.
C15_EmptySlugRejected ==
    \A title \in Titles, parent \in ParentArgs,
       state \in {s \in StateArgs : StateAccepted(s)} :
        slugify(title) = <<>> =>
            LET r == add_cmd(tasks, now, title, parent, state, None)
            IN  /\ r.result = "badslug"
                /\ r.id = <<>>
                /\ r.saves = 0
                /\ Same(r.tasks, tasks)

C15_Witness ==
    /\ last.cmd = "add"
    /\ last.result = "badslug"
    /\ last.saves = 0
    /\ tasks # <<>>

\* The field an edit option leaves: the old value when the option is not
\* given, nothing when it is given empty, else the value given.
Edited(old, opt) ==
    IF IsNone(opt) THEN old ELSE IF Get(opt) = <<>> THEN None ELSE Some(Get(opt))

\* C18: edit with none of --title, --notes, --parent saves nothing and
\* leaves the record as it was, updated included; with an option it saves
\* once, and only the fields named and updated change.
C18_EditFrame ==
    \A id \in DOMAIN tasks, title \in EditTitles, notes \in EditNotes,
       parent \in EditParents :
        LET r == edit_cmd(tasks, now, id, title, notes, parent)
            t == tasks[id]
        IN  IF IsNone(title) /\ IsNone(notes) /\ IsNone(parent)
            THEN r.result = "nothing" /\ r.saves = 0 /\ Same(r.tasks, tasks)
            ELSE /\ r.result = "ok"
                 /\ r.saves = 1
                 /\ DOMAIN r.tasks = DOMAIN tasks
                 /\ \A i \in DOMAIN tasks \ {id} : r.tasks[i] = tasks[i]
                 /\ r.tasks[id].id = t.id
                 /\ r.tasks[id].state = t.state
                 /\ r.tasks[id].created = t.created
                 /\ r.tasks[id].updated = now
                 /\ r.tasks[id].title = IF IsNone(title) THEN t.title ELSE Get(title)
                 /\ r.tasks[id].notes = Edited(t.notes, notes)
                 /\ r.tasks[id].parent = Edited(t.parent, parent)

\* An edit with no option ran on a task last updated before it.
C18_Witness ==
    /\ last.cmd = "edit"
    /\ last.result = "nothing"
    /\ last.id \in DOMAIN tasks
    /\ tasks[last.id].updated < now

(***************************************************************************)
(* The concurrent program: two invocations of td on one project directory, *)
(* with no lock.  A command that writes is two steps: it reads the store   *)
(* and the clock and builds the Task in memory (add: lines 45-68,          *)
(* _set_state: 74-77, edit: 211-226, mv: 238-241), and later it saves      *)
(* (lines 69, 78, 227, 242).  Steps of the two invocations interleave.     *)
(*                                                                         *)
(* Of each invocation: pc, cmd, mem (the Task in memory), base (the record *)
(* it loaded), result; and as history, raced (the other invocation saved   *)
(* under mem's id since this one read), over and overcmd (what it saved,   *)
(* and by which command).                                                  *)
(***************************************************************************)
Procs == {1, 2}

ConcTitles == {<<"F", "o">>, <<"f", "o", "!">>}
ConcIds == {fo, fo2}
ConcStates == {S_focus, S_done}

IdleProc ==
    [pc |-> "idle", cmd |-> "none", mem |-> NoTask, base |-> NoTask,
     result |-> "none", raced |-> FALSE, over |-> NoTask, overcmd |-> "none"]

InitConc ==
    /\ tasks = <<>>
    /\ now = 0
    /\ last = Idle
    /\ ncmds = 0
    /\ removed = {}
    /\ procs = [p \in Procs |-> IdleProc]

\* The command has read the store: r is what it would do if it ran alone
\* from here.  It ends now if it fails or has nothing to save; otherwise it
\* holds the Task it will save.
Begin(p, cmd, r) ==
    /\ procs[p].pc = "idle"
    /\ ncmds < MaxConcCmds
    /\ ncmds' = ncmds + 1
    /\ procs' = [procs EXCEPT ![p] =
            IF r.saves = 0
            THEN [IdleProc EXCEPT !.cmd = cmd, !.result = r.result]
            ELSE [IdleProc EXCEPT !.pc = "save", !.cmd = cmd,
                                  !.mem = r.tasks[r.id],
                                  !.base = load_task(tasks, r.id).task,
                                  !.result = "running"]]
    /\ UNCHANGED <<tasks, now, last, removed>>

\* Faulty variant: an add's save resolves the id again, against the store as it is.
conc_write_fresh(T, pr) ==
    IF pr.cmd = "add"
    THEN save_task(T, [pr.mem EXCEPT !.id = resolve_unique_id(T, pr.mem.id)])
    ELSE save_task(T, pr.mem)

\* Faulty variant: the save writes only the fields the command changed.
conc_write_merge(T, pr) ==
    IF pr.cmd = "add" \/ pr.mem.id \notin DOMAIN T
    THEN save_task(T, pr.mem)
    ELSE save_task(T, [T[pr.mem.id] EXCEPT
            !.title = IF pr.mem.title # pr.base.title THEN pr.mem.title ELSE @,
            !.state = IF pr.mem.state # pr.base.state THEN pr.mem.state ELSE @,
            !.parent = IF pr.mem.parent # pr.base.parent THEN pr.mem.parent ELSE @,
            !.notes = IF pr.mem.notes # pr.base.notes THEN pr.mem.notes ELSE @,
            !.updated = pr.mem.updated])

\* save_task(root, task), with the Task the invocation holds.
conc_write(T, pr) == save_task(T, pr.mem)

conc_add(p) ==
    \E title \in ConcTitles :
        Begin(p, "add", add_cmd(tasks, now, title, None, None, None))

conc_set_state(p) ==
    \E id \in ConcIds, st \in ConcStates :
        Begin(p, IF st = S_focus THEN "focus" ELSE "done",
              _set_state(tasks, now, id, st))

conc_edit(p) ==
    \E id \in ConcIds, title \in EditTitles :
        Begin(p, "edit", edit_cmd(tasks, now, id, title, None, None))

conc_mv(p) ==
    \E id \in ConcIds : Begin(p, "mv", mv_cmd(tasks, now, id, fo))

conc_save(p) ==
    /\ procs[p].pc = "save"
    /\ tasks' = conc_write(tasks, procs[p])
    /\ procs' = [q \in Procs |->
            IF q = p THEN [procs[p] EXCEPT !.pc = "idle", !.result = "ok"]
            ELSE IF procs[q].pc = "save" /\ procs[q].mem.id = procs[p].mem.id
            THEN [procs[q] EXCEPT !.raced = TRUE, !.over = procs[p].mem,
                                  !.overcmd = procs[p].cmd]
            ELSE procs[q]]
    /\ UNCHANGED <<now, last, ncmds, removed>>

TickConc ==
    /\ now < MaxClock
    /\ ncmds < MaxConcCmds
    /\ now' = now + 1
    /\ UNCHANGED <<tasks, last, ncmds, removed, procs>>

NextConc ==
    \/ TickConc
    \/ \E p \in Procs : conc_add(p)
    \/ \E p \in Procs : conc_set_state(p)
    \/ \E p \in Procs : conc_edit(p)
    \/ \E p \in Procs : conc_mv(p)
    \/ \E p \in Procs : conc_save(p)

SpecConc == InitConc /\ [][NextConc]_vars

(***************************************************************************)
(* Properties of the concurrent program.                                   *)
(***************************************************************************)
\* p saves in this step, after the other invocation saved under the same id.
RacedSave(p) ==
    /\ procs[p].pc = "save"
    /\ procs[p].raced
    /\ procs'[p].pc = "idle"

\* C9: when two adds resolve the same id before either saves, both succeed
\* and report that id, the second save overwrites the first one's record,
\* and the store holds one task for the two adds.
C9_AddRace ==
    [][\A p \in Procs :
        (RacedSave(p) /\ procs[p].cmd = "add") =>
            /\ procs'[p].result = "ok"
            /\ procs[p].mem.id \in DOMAIN tasks
            /\ DOMAIN tasks' = DOMAIN tasks
            /\ tasks'[procs[p].mem.id] = procs[p].mem]_vars

C9_Witness ==
    \E p \in Procs, q \in Procs :
        /\ p # q
        /\ ncmds = 2
        /\ procs[p].cmd = "add" /\ procs[p].pc = "idle" /\ procs[p].result = "ok"
        /\ procs[q].cmd = "add" /\ procs[q].pc = "idle" /\ procs[q].result = "ok"
        /\ procs[p].raced
        /\ procs[p].mem.id = procs[q].mem.id
        /\ procs[p].mem.title # procs[q].mem.title
        /\ DOMAIN tasks = {procs[p].mem.id}
        /\ tasks[procs[p].mem.id] = procs[p].mem

\* C10: when two mutating commands load the same task before either saves,
\* the record after both saves is the later writer's whole in-memory copy:
\* what it loaded with its own change, without the earlier writer's change.
C10_LastWriterWins ==
    [][\A p \in Procs :
        (RacedSave(p) /\ procs[p].cmd \in Mutators /\ procs[p].overcmd \in Mutators) =>
            LET id == procs[p].mem.id
            IN  /\ tasks'[id] = procs[p].mem
                /\ procs[p].mem.state = procs[p].base.state => tasks'[id].state = procs[p].base.state
                /\ procs[p].mem.title = procs[p].base.title => tasks'[id].title = procs[p].base.title
                /\ procs[p].mem.parent = procs[p].base.parent => tasks'[id].parent = procs[p].base.parent
                /\ procs[p].mem.notes = procs[p].base.notes => tasks'[id].notes = procs[p].base.notes]_vars

\* done saved first, then an edit that had loaded before it: the task is not
\* done any more.
C10_Witness ==
    \E p \in Procs :
        /\ procs[p].cmd = "edit" /\ procs[p].pc = "idle" /\ procs[p].result = "ok"
        /\ procs[p].raced
        /\ procs[p].overcmd = "done"
        /\ procs[p].over.state = S_done
        /\ procs[p].base.state # S_done
        /\ tasks[procs[p].mem.id] = procs[p].mem
        /\ tasks[procs[p].mem.id].state # S_done

(***************************************************************************)
(* The listing program: commands that shape the states and the parents of  *)
(* the tasks, and between them ls and tree, which only read.               *)
(***************************************************************************)
ViewStates == {None, Some(S_focus), Some(S_later), Some(S_done)}
ViewIds == {fo, fo2}
ViewEdits == {<<None, Some(<<>>)>>, <<Some(<<>>), None>>, <<Some(<<"n">>), None>>,
              <<None, Some(fo2)>>}
ViewFilters == {None, Some(S_later)}
TreeIds == {None, Some(fo), Some(fo2)}

\* The orders load_all may return the records of T in.
Orders(T) ==
    LET n == Cardinality(DOMAIN T)
    IN  {o \in [1..n -> DOMAIN T] : \A i, j \in 1..n : o[i] = o[j] => i = j}

ViewRunWith(r, report) ==
    /\ ncmds < MaxViewCmds
    /\ tasks' = r.tasks
    /\ last' = report
    /\ ncmds' = ncmds + 1
    /\ UNCHANGED <<now, removed, procs>>

ViewRun(cmd, r) == ViewRunWith(r, Report(cmd, r, None))

\* A command that only reads: what it was given, how it ended, what it printed.
ViewRead(cmd, id, result, out) ==
    /\ last' = [Idle EXCEPT !.cmd = cmd, !.id = id, !.result = result, !.out = out]
    /\ UNCHANGED <<tasks, now, ncmds, removed, procs>>

view_add ==
    \E parent \in ParentArgs, state \in ViewStates :
        ViewRun("add", add_cmd(tasks, now, <<"F", "o">>, parent, state, None))

view_mv ==
    \E id \in ViewIds, parent_id \in MvParents :
        ViewRun("mv", mv_cmd(tasks, now, id, parent_id))

view_edit ==
    \E id \in ViewIds, e \in ViewEdits :
        LET r == edit_cmd(tasks, now, id, None, e[1], e[2])
        IN  ViewRunWith(r, [Report("edit", r, None) EXCEPT
                               !.parent = e[2],
                               !.had = IF exists(tasks, id) THEN tasks[id].parent
                                       ELSE None])

view_rm == \E id \in ViewIds : ViewRun("rm", rm_cmd(tasks, id, TRUE, TRUE))

ls ==
    \E order \in Orders(tasks), filter_state \in ViewFilters, show_all \in BOOLEAN :
        ViewRead(IF show_all THEN "ls --all" ELSE "ls",
                 IF IsNone(filter_state) THEN <<>> ELSE Get(filter_state), "ok",
                 ls_cmd(tasks, order, filter_state, show_all))

tree ==
    \E order \in Orders(tasks), id \in TreeIds :
        LET r == tree_cmd(tasks, order, id)
        IN  ViewRead("tree", IF IsNone(id) THEN <<>> ELSE Get(id), r.result, r.out)

NextView ==
    \/ view_add
    \/ view_mv
    \/ view_edit
    \/ view_rm
    \/ ls
    \/ tree

SpecView == Init /\ [][NextView]_vars

(***************************************************************************)
(* Claims about the listings.                                              *)
(***************************************************************************)
\* How many of the printed lines are for task i.
Printed(out, i) == Cardinality({k \in 1..Len(out) : out[k].id = i})

\* The rank of a state in a listing: focus, active, later, done.
Rank(st) ==
    IF st = S_focus THEN 0 ELSE IF st = S_active THEN 1
    ELSE IF st = S_later THEN 2 ELSE 3

\* C13: ls with neither --state nor --all lists exactly the stored tasks that
\* are not done: each of them once, no done task, whatever order they were
\* loaded in.
C13_LsListsOpenTasks ==
    \A order \in Orders(tasks) :
        LET out == ls_cmd(tasks, order, None, FALSE)
        IN  /\ \A k \in 1..Len(out) : out[k].id \in DOMAIN tasks
            /\ \A i \in DOMAIN tasks :
                 Printed(out, i) = IF tasks[i].state # S_done THEN 1 ELSE 0

\* ls printed exactly A and C of A active, B done, C focus.
C13_Witness ==
    /\ last.cmd = "ls"
    /\ last.id = <<>>
    /\ \E a, b, c \in DOMAIN tasks :
         /\ tasks[a].state = S_active
         /\ tasks[b].state = S_done
         /\ tasks[c].state = S_focus
         /\ {last.out[k].id : k \in 1..Len(last.out)} = {a, c}

\* C14: in what ls prints, with or without --state or --all, a task never
\* comes after a task of a later-ranked state (focus, active, later, done),
\* whatever order the tasks were loaded in.
C14_LsOrderedByState ==
    \A order \in Orders(tasks), filter_state \in ViewFilters, show_all \in BOOLEAN :
        LET out == ls_cmd(tasks, order, filter_state, show_all)
        IN  \A j, k \in 1..Len(out) :
                j < k => Rank(out[j].state) <= Rank(out[k].state)

\* ls printed focus, active, later of tasks created as later, focus, active.
C14_Witness ==
    /\ last.cmd \in {"ls", "ls --all"}
    /\ exists(tasks, fo) /\ exists(tasks, fo2) /\ exists(tasks, fo3)
    /\ tasks[fo].state = S_later
    /\ tasks[fo2].state = S_focus
    /\ tasks[fo3].state = S_active
    /\ last.out = <<Line(tasks[fo2], 0), Line(tasks[fo3], 0), Line(tasks[fo], 0)>>

\* C16: tree ID comes to its end, having printed the subtree, for every
\* stored task ID that is not done, parent cycles included.
C16_TreeTerminates ==
    \A order \in Orders(tasks), id \in DOMAIN tasks :
        tasks[id].state # S_done => tree_cmd(tasks, order, Some(id)).result = "ok"

\* C17: tree without ID prints every stored task that is not done exactly
\* once, whatever its parent is.
C17_TreePrintsOpenTasks ==
    \A order \in Orders(tasks) :
        LET r == tree_cmd(tasks, order, None)
        IN  /\ r.result = "ok"
            /\ \A i \in DOMAIN tasks :
                 tasks[i].state # S_done => Printed(r.out, i) = 1

\* The task is printed once by tree without ID, as a root.
ShownAsRoot(T, i) ==
    \A order \in Orders(T) :
        LET r == tree_cmd(T, order, None)
        IN  /\ r.result = "ok"
            /\ Printed(r.out, i) = 1
            /\ \E k \in 1..Len(r.out) : r.out[k] = Line(T[i], 0)

\* What edit --notes "" and edit --parent "" leave of task id.
NotesRemoved(id) == edit_cmd(tasks, now, id, None, Some(<<>>), None).tasks
ParentRemoved(id) == edit_cmd(tasks, now, id, None, None, Some(<<>>)).tasks

\* C19 as stated: edit --notes "" and edit --parent "" leave the field
\* absent, and tree without ID then shows the task as a root.
C19_Original ==
    \A id \in DOMAIN tasks :
        /\ NotesRemoved(id)[id].notes = None
        /\ ParentRemoved(id)[id].parent = None
        /\ ShownAsRoot(ParentRemoved(id), id)

\* C19: edit --notes "" and edit --parent "" leave the field absent, never
\* the empty string, and tree without ID shows a task without parent as a
\* root: provided the task is not done, for tree hides the done tasks.
C19_EditRemoves ==
    /\ \A id \in DOMAIN tasks :
         /\ NotesRemoved(id)[id].notes = None
         /\ ParentRemoved(id)[id].parent = None
         /\ tasks[id].state # S_done => ShownAsRoot(ParentRemoved(id), id)
    /\ \A i \in DOMAIN tasks :
         tasks[i].parent = None /\ tasks[i].state # S_done => ShownAsRoot(tasks, i)

\* edit --parent "" has removed the parent of a task that had one.
C19_Witness ==
    /\ last.cmd = "edit"
    /\ last.result = "ok"
    /\ last.parent = Some(<<>>)
    /\ last.had # None
    /\ tasks[last.id].parent = None
    /\ tasks[last.id].state # S_done
    /\ ShownAsRoot(tasks, last.id)

====
